---- MODULE Spec2Model ----
(***************************************************************************)
(* Model of src/lib.rs of zipped-shapefile: ZippedShapefile::new (member   *)
(* resolution by extension), read_member (in-memory materialisation of one *)
(* archive member) and the facade methods projection, shape_reader,        *)
(* dbf_reader, reader and types.                                           *)
(*                                                                         *)
(* Strings are sequences of one-character strings, bytes are 0..255, a u64 *)
(* is a tuple of four 16-bit words (most significant first), so that the   *)
(* u64 -> usize conversion keeps its width.                                *)
(***************************************************************************)
EXTENDS Integers, Sequences, FiniteSets, TLC

VARIABLES
    archive,     \* the ZipArchive: [names: listing order, file: name -> member]
    usizeWords,  \* the target's pointer width, in 16-bit words
    pc,          \* "start" | "ready" (Ok(Self)) | "failed" (Err) | "panicked"
    self,        \* the ZippedShapefile's fields projection, shp, shx, dbf
    fresh,       \* the fields as ZippedShapefile::new returned them
    newResult,   \* what ZippedShapefile::new returned
    last,        \* the last method call: its name, result and by_name calls
    ncalls,      \* number of method calls made on the dataset so far
    nreads       \* number of by_name calls so far, per member name

vars == <<archive, usizeWords, pc, self, fresh, newResult, last, ncalls, nreads>>

----------------------------------------------------------------------------
(* Bounds of the model *)

\* longest archive listing
MaxMembers == 4
\* longest member content, in bytes
MaxLen == 2
\* most facade calls on one dataset
MaxCalls == 3

----------------------------------------------------------------------------
(* Option and Result values *)

None == [tag |-> "None"]
Some(x) == [tag |-> "Some", val |-> x]
IsSome(o) == o.tag = "Some"

Ok(v) == [kind |-> "Ok", val |-> v]
Err(e, arg) == [kind |-> "Err", err |-> e, arg |-> arg]
Panic(what) == [kind |-> "Panic", what |-> what]

NoArg == <<>>

----------------------------------------------------------------------------
(* Member names and extensions *)

DotShp == <<".", "s", "h", "p">>
DotShx == <<".", "s", "h", "x">>
DotDbf == <<".", "d", "b", "f">>
DotPrj == <<".", "p", "r", "j">>

Extensions == {DotShp, DotShx, DotDbf, DotPrj}

\* str::ends_with
EndsWith(s, suffix) ==
    /\ Len(s) >= Len(suffix)
    /\ SubSeq(s, Len(s) - Len(suffix) + 1, Len(s)) = suffix

EndsWithIgnoreCase(s, suffix) ==
    LET Lower(c) == CASE c = "S" -> "s" [] c = "H" -> "h" [] c = "P" -> "p"
                      [] c = "X" -> "x" [] c = "D" -> "d" [] c = "B" -> "b"
                      [] c = "F" -> "f" [] c = "R" -> "r" [] c = "J" -> "j"
                      [] OTHER -> c
    IN /\ Len(s) >= Len(suffix)
       /\ [i \in 1..Len(suffix) |-> Lower(s[Len(s) - Len(suffix) + i])] = suffix

ClassifyIgnoreCase(member) ==
    IF EndsWithIgnoreCase(member, DotShp) THEN Some(DotShp)
    ELSE IF EndsWithIgnoreCase(member, DotShx) THEN Some(DotShx)
    ELSE IF EndsWithIgnoreCase(member, DotDbf) THEN Some(DotDbf)
    ELSE IF EndsWithIgnoreCase(member, DotPrj) THEN Some(DotPrj)
    ELSE None

\* the if / else-if chain of the loop body: the first extension that matches
Classify(member) ==
    IF EndsWith(member, DotShp) THEN Some(DotShp)
    ELSE IF EndsWith(member, DotShx) THEN Some(DotShx)
    ELSE IF EndsWith(member, DotDbf) THEN Some(DotDbf)
    ELSE IF EndsWith(member, DotPrj) THEN Some(DotPrj)
    ELSE None

\* the locals shp, shx, dbf, prj of new, all None
NoSlots == [e \in Extensions |-> None]

\* the loop ignores a second match instead of failing on it
RECURSIVE EnumerateFirstWins(_, _, _)
EnumerateFirstWins(names, i, slots) ==
    IF i > Len(names) THEN [res |-> Ok(slots), seen |-> Len(names)]
    ELSE LET c == Classify(names[i])
         IN  IF ~IsSome(c) \/ IsSome(slots[c.val])
             THEN EnumerateFirstWins(names, i + 1, slots)
             ELSE EnumerateFirstWins(names, i + 1,
                                     [slots EXCEPT ![c.val] = Some(names[i])])

\* the loop collects every match and reports a duplicate only after the loop
RECURSIVE EnumerateDeferred(_, _, _)
EnumerateDeferred(names, i, slots) ==
    IF i > Len(names)
    THEN LET dup == {e \in Extensions :
                       Cardinality({k \in 1..Len(names) :
                                      Classify(names[k]) = Some(e)}) > 1}
         IN  IF dup = {} THEN [res |-> Ok(slots), seen |-> Len(names)]
             ELSE [res |-> Err("MultipleFilesFound",
                               CHOOSE e \in dup : TRUE),
                   seen |-> Len(names)]
    ELSE LET c == Classify(names[i])
         IN  IF ~IsSome(c) THEN EnumerateDeferred(names, i + 1, slots)
             ELSE EnumerateDeferred(names, i + 1,
                                    [slots EXCEPT ![c.val] = Some(names[i])])

\* for member in archive.file_names() { ... }: from the i-th name on, with
\* the locals as they are; seen is the number of names taken from the
\* iterator when the loop ends or returns
RECURSIVE Enumerate(_, _, _)
Enumerate(names, i, slots) ==
    IF i > Len(names) THEN [res |-> Ok(slots), seen |-> Len(names)]
    ELSE LET c == Classify(names[i])
         IN  IF ~IsSome(c) THEN Enumerate(names, i + 1, slots)
             ELSE IF IsSome(slots[c.val])
             THEN [res |-> Err("MultipleFilesFound", c.val), seen |-> i]
             ELSE Enumerate(names, i + 1,
                            [slots EXCEPT ![c.val] = Some(names[i])])

----------------------------------------------------------------------------
(* UTF-8, as Read::read_to_string validates it *)

IsCont(b) == b >= 128 /\ b <= 191

\* the code points of a byte string, or None when it is not valid UTF-8
RECURSIVE Utf8Decode(_)
Utf8Decode(bytes) ==
    IF bytes = <<>> THEN Some(<<>>)
    ELSE
    LET b1 == bytes[1]
        n  == Len(bytes)
        Rest(k, cp) ==
            LET r == Utf8Decode(SubSeq(bytes, k + 1, n))
            IN  IF IsSome(r) THEN Some(<<cp>> \o r.val) ELSE None
    IN  IF b1 < 128 THEN Rest(1, b1)
        ELSE IF b1 >= 194 /\ b1 <= 223
        THEN IF n >= 2 /\ IsCont(bytes[2])
             THEN Rest(2, (b1 - 192) * 64 + (bytes[2] - 128))
             ELSE None
        ELSE IF b1 >= 224 /\ b1 <= 239
        THEN IF /\ n >= 3
                /\ IsCont(bytes[2])
                /\ IsCont(bytes[3])
                /\ (b1 = 224 => bytes[2] >= 160)
                /\ (b1 = 237 => bytes[2] <= 159)
             THEN Rest(3, (b1 - 224) * 4096 + (bytes[2] - 128) * 64
                          + (bytes[3] - 128))
             ELSE None
        ELSE IF b1 >= 240 /\ b1 <= 244
        THEN IF /\ n >= 4
                /\ IsCont(bytes[2])
                /\ IsCont(bytes[3])
                /\ IsCont(bytes[4])
                /\ (b1 = 240 => bytes[2] >= 144)
                /\ (b1 = 244 => bytes[2] <= 143)
             THEN Rest(4, (b1 - 240) * 262144 + (bytes[2] - 128) * 4096
                          + (bytes[3] - 128) * 64 + (bytes[4] - 128))
             ELSE None
        ELSE None

\* the bytes of a string of code points (String::as_bytes)
RECURSIVE Utf8Encode(_)
Utf8Encode(text) ==
    IF text = <<>> THEN <<>>
    ELSE LET cp == text[1]
             head == IF cp < 128 THEN <<cp>>
                     ELSE IF cp < 2048
                     THEN <<192 + (cp \div 64), 128 + (cp % 64)>>
                     ELSE IF cp < 65536
                     THEN <<224 + (cp \div 4096), 128 + ((cp \div 64) % 64),
                            128 + (cp % 64)>>
                     ELSE <<240 + (cp \div 262144),
                            128 + ((cp \div 4096) % 64),
                            128 + ((cp \div 64) % 64), 128 + (cp % 64)>>
         IN  head \o Utf8Encode(Tail(text))

----------------------------------------------------------------------------
(* Sizes: u64 and usize *)

\* a u64 is U64Words 16-bit words, most significant first
U64Words == 4
WordMax == 2 ^ 16 - 1

\* a length of the model (far below 2^31) as a u64 / usize
ToWords(n) == <<0, 0, n \div (WordMax + 1), n % (WordMax + 1)>>

\* `as usize`: keeps the low words, never fails
TruncateToUsize(size, words) ==
    Some([k \in 1..U64Words |-> IF k <= U64Words - words THEN 0 ELSE size[k]])

\* u64::try_into::<usize>(): the same number, or None when it needs more
\* than the target's pointer width
TryIntoUsize(size, words) ==
    IF \A k \in 1..(U64Words - words) : size[k] = 0 THEN Some(size) ELSE None

\* whether a usize exceeds isize::MAX (its top bit is set)
ExceedsIsizeMax(size, words) == size[U64Words - words + 1] > WordMax \div 2

----------------------------------------------------------------------------
(* The archive and read_member *)

\* ZipArchive::by_name: the member's entry, or a ZipError
ByName(ar, name) ==
    IF name \notin DOMAIN ar.file THEN Err("Zip", NoArg)
    ELSE IF ~ar.file[name].openOk THEN Err("Zip", NoArg)
    ELSE Ok(ar.file[name])

\* Read::read_to_end on a ZipFile: the number of bytes the stream yields
ReadToEnd(zf) ==
    IF zf.readOk THEN Ok(Len(zf.data)) ELSE Err("IOError", NoArg)

\* Cursor::new(buf); fmtOk stands for whether the shapefile / dbase parser
\* accepts these bytes
Cursor(zf) == [buf |-> zf.data, pos |-> 0, fmtOk |-> zf.wellFormed]

\* the outcome of read_member: res is what it returns (or the panic), steps
\* the calls it made on the archive entry and the allocator, in order
Outcome(res, steps) == [res |-> res, steps |-> steps]

\* the size check is dropped: whatever was read is returned
ReadMemberNoAssert(ar, words, name) ==
    LET zf == ByName(ar, name)
    IN  IF zf.kind # "Ok" THEN Outcome(zf, <<"by_name">>)
        ELSE LET size == TryIntoUsize(zf.val.size, words)
             IN  IF ~IsSome(size)
                 THEN Outcome(Err("MemberSizeTooLarge", zf.val.size),
                              <<"by_name">>)
                 ELSE IF ExceedsIsizeMax(size.val, words)
                 THEN Outcome(Panic("capacity overflow"),
                              <<"by_name", "with_capacity">>)
                 ELSE LET n == ReadToEnd(zf.val)
                          steps == <<"by_name", "with_capacity", "read_to_end">>
                      IN  IF n.kind # "Ok" THEN Outcome(n, steps)
                          ELSE Outcome(Ok(Cursor(zf.val)), steps)

\* the size is cast with `as usize` instead of converted
ReadMemberTruncating(ar, words, name) ==
    LET zf == ByName(ar, name)
    IN  IF zf.kind # "Ok" THEN Outcome(zf, <<"by_name">>)
        ELSE LET size == TruncateToUsize(zf.val.size, words)
             IN  IF ExceedsIsizeMax(size.val, words)
                 THEN Outcome(Panic("capacity overflow"),
                              <<"by_name", "with_capacity">>)
                 ELSE LET n == ReadToEnd(zf.val)
                          steps == <<"by_name", "with_capacity", "read_to_end">>
                      IN  IF n.kind # "Ok" THEN Outcome(n, steps)
                          ELSE IF size.val # ToWords(n.val)
                          THEN Outcome(Panic("assert_eq"), steps)
                          ELSE Outcome(Ok(Cursor(zf.val)), steps)

\* fn read_member(&mut self, name)
ReadMember(ar, words, name) ==
    LET zf == ByName(ar, name)
    IN  IF zf.kind # "Ok" THEN Outcome(zf, <<"by_name">>)
        ELSE LET size == TryIntoUsize(zf.val.size, words)
             IN  IF ~IsSome(size)
                 THEN Outcome(Err("MemberSizeTooLarge", zf.val.size),
                              <<"by_name">>)
                 \* Vec::with_capacity(size) panics above isize::MAX bytes
                 ELSE IF ExceedsIsizeMax(size.val, words)
                 THEN Outcome(Panic("capacity overflow"),
                              <<"by_name", "with_capacity">>)
                 ELSE LET n == ReadToEnd(zf.val)
                          steps == <<"by_name", "with_capacity", "read_to_end">>
                      IN  IF n.kind # "Ok" THEN Outcome(n, steps)
                          \* assert_eq!(size, n)
                          ELSE IF size.val # ToWords(n.val)
                          THEN Outcome(Panic("assert_eq"), steps)
                          ELSE Outcome(Ok(Cursor(zf.val)), steps)

----------------------------------------------------------------------------
(* ZippedShapefile::new *)

\* archive.by_name(&prj)?.read_to_string(&mut wkt)?
ReadToString(ar, name) ==
    LET zf == ByName(ar, name)
    IN  IF zf.kind # "Ok" THEN zf
        ELSE IF ~zf.val.readOk THEN Err("IOError", NoArg)
        ELSE LET wkt == Utf8Decode(zf.val.data)
             IN  IF IsSome(wkt) THEN Ok(wkt.val) ELSE Err("IOError", NoArg)

\* the .prj member is never read
NewWithoutProjection(ar) ==
    LET e == Enumerate(ar.names, 1, NoSlots)
    IN  IF e.res.kind # "Ok" THEN [res |-> e.res, seen |-> e.seen, reads |-> <<>>]
        ELSE LET slots == e.res.val
             IN  [res |-> IF IsSome(slots[DotShp])
                          THEN Ok([projection |-> None,
                                   shp |-> slots[DotShp].val,
                                   shx |-> slots[DotShx],
                                   dbf |-> slots[DotDbf]])
                          ELSE Err("NoShpFound", NoArg),
                  seen |-> e.seen, reads |-> <<>>]

\* res is what new returns, seen the number of names enumerated, reads the
\* names passed to by_name
New(ar) ==
    LET e == Enumerate(ar.names, 1, NoSlots)
    IN  IF e.res.kind # "Ok" THEN [res |-> e.res, seen |-> e.seen, reads |-> <<>>]
        ELSE LET slots == e.res.val
                 prj == slots[DotPrj]
                 wkt == IF IsSome(prj) THEN ReadToString(ar, prj.val)
                        ELSE Ok(<<>>)
                 reads == IF IsSome(prj) THEN <<prj.val>> ELSE <<>>
             IN  IF wkt.kind # "Ok"
                 THEN [res |-> wkt, seen |-> e.seen, reads |-> reads]
                 ELSE [res |-> IF IsSome(slots[DotShp])
                               THEN Ok([projection |->
                                          IF IsSome(prj) THEN Some(wkt.val)
                                          ELSE None,
                                        shp |-> slots[DotShp].val,
                                        shx |-> slots[DotShx],
                                        dbf |-> slots[DotDbf]])
                               ELSE Err("NoShpFound", NoArg),
                       seen |-> e.seen, reads |-> reads]

----------------------------------------------------------------------------
(* The facade: each method applied to the fields s of the dataset; res is   *)
(* what it returns, reads the names passed to read_member in order, self    *)
(* the fields afterwards                                                    *)

Called(res, reads, s) == [res |-> res, reads |-> reads, self |-> s]

\* pub fn projection(&self)
Projection(s, ar, words) == Called(Ok(s.projection), <<>>, s)

\* shapefile's ShapeReader::new(source)
ShapeReaderNew(source) ==
    IF source.fmtOk THEN Ok([source |-> source, shx |-> None])
    ELSE Err("Shapefile", NoArg)

\* shapefile's ShapeReader::with_shx(source, shx_source)
ShapeReaderWithShx(source, shx) ==
    IF source.fmtOk /\ shx.fmtOk THEN Ok([source |-> source, shx |-> Some(shx)])
    ELSE Err("Shapefile", NoArg)

\* the index slot is moved out of self (take) instead of cloned
ShapeReaderTakingShx(s, ar, words) ==
    LET taken == [s EXCEPT !.shx = None]
        shp == ReadMember(ar, words, s.shp).res
    IN  IF shp.kind # "Ok" THEN Called(shp, <<s.shp>>, taken)
        ELSE IF IsSome(s.shx)
        THEN LET shx == ReadMember(ar, words, s.shx.val).res
             IN  Called(IF shx.kind # "Ok" THEN shx
                        ELSE ShapeReaderWithShx(shp.val, shx.val),
                        <<s.shp, s.shx.val>>, taken)
        ELSE Called(ShapeReaderNew(shp.val), <<s.shp>>, taken)

\* the index is never read: the reader is always built from the geometry
ShapeReaderIgnoringShx(s, ar, words) ==
    LET shp == ReadMember(ar, words, s.shp).res
    IN  IF shp.kind # "Ok" THEN Called(shp, <<s.shp>>, s)
        ELSE Called(ShapeReaderNew(shp.val), <<s.shp>>, s)

\* pub fn shape_reader(&mut self)
ShapeReader(s, ar, words) ==
    LET shp == ReadMember(ar, words, s.shp).res
    IN  IF shp.kind # "Ok" THEN Called(shp, <<s.shp>>, s)
        ELSE IF IsSome(s.shx)
        THEN LET shx == ReadMember(ar, words, s.shx.val).res
             IN  Called(IF shx.kind # "Ok" THEN shx
                        ELSE ShapeReaderWithShx(shp.val, shx.val),
                        <<s.shp, s.shx.val>>, s)
        ELSE Called(ShapeReaderNew(shp.val), <<s.shp>>, s)

\* the field descriptors a well-formed table declares, and the Display form
\* of a dbase field type
TableFields == <<[name |-> <<"i", "d">>, field_type |-> "N"],
                 [name |-> <<"n", "a", "m", "e">>, field_type |-> "C"]>>
FieldTypeToString(t) == IF t = "N" THEN "Numeric" ELSE "Character"

\* dbase::Reader::new(source)
DbaseReaderNew(source) ==
    IF source.fmtOk THEN Ok([source |-> source, fields |-> TableFields])
    ELSE Err("DBase", NoArg)

\* an absent attribute slot is reported as an error
DbfReaderStrict(s, ar, words) ==
    IF IsSome(s.dbf)
    THEN LET dbf == ReadMember(ar, words, s.dbf.val).res
         IN  Called(IF dbf.kind # "Ok" THEN dbf
                    ELSE LET r == DbaseReaderNew(dbf.val)
                         IN  IF r.kind # "Ok" THEN r ELSE Ok(Some(r.val)),
                    <<s.dbf.val>>, s)
    ELSE Called(Err("NoDbfFound", NoArg), <<>>, s)

\* pub fn dbf_reader(&mut self)
DbfReader(s, ar, words) ==
    IF IsSome(s.dbf)
    THEN LET dbf == ReadMember(ar, words, s.dbf.val).res
         IN  Called(IF dbf.kind # "Ok" THEN dbf
                    ELSE LET r == DbaseReaderNew(dbf.val)
                         IN  IF r.kind # "Ok" THEN r ELSE Ok(Some(r.val)),
                    <<s.dbf.val>>, s)
    ELSE Called(Ok(None), <<>>, s)

\* the geometry reader is built first, the attribute reader second
ReaderShapeFirst(s, ar, words) ==
    LET shp == ShapeReader(s, ar, words)
    IN  IF shp.res.kind # "Ok" THEN shp
        ELSE LET d == DbfReader(shp.self, ar, words)
                 dbf == IF d.res.kind # "Ok" THEN d.res
                        ELSE IF IsSome(d.res.val) THEN Ok(d.res.val.val)
                        ELSE Err("NoDbfFound", NoArg)
             IN  Called(IF dbf.kind # "Ok" THEN dbf
                        ELSE Ok([shp |-> shp.res.val, dbf |-> dbf.val]),
                        shp.reads \o d.reads, d.self)

\* pub fn reader(&mut self)
Reader(s, ar, words) ==
    LET d == DbfReader(s, ar, words)
        \* .transpose().unwrap_or(Err(Error::NoDbfFound))
        dbf == IF d.res.kind # "Ok" THEN d.res
               ELSE IF IsSome(d.res.val) THEN Ok(d.res.val.val)
               ELSE Err("NoDbfFound", NoArg)
    IN  IF dbf.kind # "Ok" THEN Called(dbf, d.reads, d.self)
        ELSE LET shp == ShapeReader(d.self, ar, words)
             IN  Called(IF shp.res.kind # "Ok" THEN shp.res
                        ELSE Ok([shp |-> shp.res.val, dbf |-> dbf.val]),
                        d.reads \o shp.reads, shp.self)

\* pub fn types(&mut self)
Types(s, ar, words) ==
    LET d == DbfReader(s, ar, words)
    IN  IF d.res.kind # "Ok" THEN d
        ELSE IF ~IsSome(d.res.val) THEN Called(Ok(None), d.reads, d.self)
        ELSE LET fields == d.res.val.val.fields
             IN  Called(Ok(Some([i \in 1..Len(fields) |->
                                   <<fields[i].name,
                                     FieldTypeToString(fields[i].field_type)>>])),
                        d.reads, d.self)

Methods == {"projection", "shape_reader", "dbf_reader", "reader", "types"}

\* method op of the facade applied to s
Call(op, s, ar, words) ==
    CASE op = "projection" -> Projection(s, ar, words)
      [] op = "shape_reader" -> ShapeReader(s, ar, words)
      [] op = "dbf_reader" -> DbfReader(s, ar, words)
      [] op = "reader" -> Reader(s, ar, words)
      [] op = "types" -> Types(s, ar, words)

----------------------------------------------------------------------------
(* Archives the program is run on *)

AShp == <<"a">> \o DotShp
BShp == <<"d", "/", "b">> \o DotShp
AShx == <<"a">> \o DotShx
BShx == <<"b">> \o DotShx
ADbf == <<"a">> \o DotDbf
BDbf == <<"b">> \o DotDbf
APrj == <<"a">> \o DotPrj
BPrj == <<"b">> \o DotPrj
\* upper case: no tracked extension
UpperShp == <<"a", ".", "S", "H", "P">>

Names == {AShp, BShp, AShx, BShx, ADbf, BDbf, APrj, BPrj, UpperShp}

Range(f) == {f[x] : x \in DOMAIN f}

\* the listings of at most max distinct names of S, in every order
Listings(S, max) ==
    UNION {{l \in [1..n -> S] : \A i, j \in 1..n : i # j => l[i] # l[j]} :
           n \in 0..max}

\* 'A', and the two bytes of U+00E9
Bytes == {65, 195, 169}
Contents == UNION {[1..n -> Bytes] : n \in 0..MaxLen}

\* pointer widths of Rust targets: 16, 32 and 64 bits
UsizeWidths == {1, 2, 4}

Member(size, data, openOk, readOk, wellFormed) ==
    [size |-> size, data |-> data, openOk |-> openOk, readOk |-> readOk,
     wellFormed |-> wellFormed]

\* a member whose entry, stream and content are all in order
Healthy(data) == Member(ToWords(Len(data)), data, TRUE, TRUE, TRUE)

\* declared sizes: the small ones, and the ones around the pointer widths
DeclaredSizes ==
    {ToWords(n) : n \in 0..(MaxLen + 1)}
        \cup {<<0, 0, 0, WordMax>>, <<0, 0, 1, 0>>, <<0, 0, 1, 1>>,
              <<0, 0, WordMax, WordMax>>, <<0, 1, 0, 0>>, <<0, 1, 0, 1>>,
              <<WordMax, WordMax, WordMax, WordMax>>}

\* every member read_member is checked on
AnyMember ==
    {Member(size, data, openOk, readOk, TRUE) :
        size \in DeclaredSizes, data \in Contents,
        openOk \in BOOLEAN, readOk \in BOOLEAN}

\* the .prj members new is checked on: ASCII text, two-byte text, a
\* truncated UTF-8 sequence, a wrong declared size, an entry that cannot be
\* opened, a stream that fails
PrjMembers ==
    {Healthy(<<65>>), Healthy(<<195, 169>>), Healthy(<<195>>),
     [Healthy(<<65>>) EXCEPT !.size = ToWords(2)],
     [Healthy(<<65>>) EXCEPT !.openOk = FALSE],
     [Healthy(<<65>>) EXCEPT !.readOk = FALSE]}

\* the members the facade is checked on: in order, unopenable, failing
\* stream, shorter than declared, declared 2^32 bytes, rejected by the parser
FacadeMembers ==
    {Healthy(<<65>>),
     [Healthy(<<65>>) EXCEPT !.openOk = FALSE],
     [Healthy(<<65>>) EXCEPT !.readOk = FALSE],
     [Healthy(<<65>>) EXCEPT !.size = ToWords(2)],
     [Healthy(<<65>>) EXCEPT !.size = <<0, 1, 0, 0>>],
     [Healthy(<<65>>) EXCEPT !.wellFormed = FALSE]}

Canonical == <<AShp, AShx, ADbf, APrj>>

----------------------------------------------------------------------------
(* The state machine *)

NoSelf == [tag |-> "NoSelf"]
NotCalled == [tag |-> "NotCalled"]

Count(x, seq) == Cardinality({i \in 1..Len(seq) : seq[i] = x})

Start(ar, words) ==
    /\ archive = ar
    /\ usizeWords = words
    /\ pc = "start"
    /\ self = NoSelf
    /\ fresh = NoSelf
    /\ newResult = NotCalled
    /\ last = [op |-> "none", res |-> NotCalled, reads |-> <<>>]
    /\ ncalls = 0
    /\ nreads = [n \in DOMAIN ar.file |-> 0]

\* a dataset is opened on an archive of up to four members, each in one of
\* the conditions of FacadeMembers
Init ==
    \E S \in SUBSET (1..Len(Canonical)), words \in UsizeWidths :
      \E file \in [{Canonical[i] : i \in S} ->
                     FacadeMembers \cup {Healthy(<<195>>)}] :
        /\ \A n \in DOMAIN file :
              IF n = APrj THEN file[n] \in {Healthy(<<65>>), Healthy(<<195>>)}
              ELSE file[n] \in FacadeMembers
        /\ Start([names |-> SelectSeq(Canonical, LAMBDA n : n \in DOMAIN file),
                  file |-> file], words)

\* new is run on every listing of up to MaxMembers names, in every order
InitNew ==
    \E l \in Listings(Names, MaxMembers), prj \in PrjMembers :
        Start([names |-> l,
               file |-> [n \in Range(l) |->
                           IF n = APrj THEN prj ELSE Healthy(<<65>>)]],
              U64Words)

\* new is run on listings that can hold one .shp or two, two .shx, two .dbf
\* and a .prj that is readable, undecodable or unopenable
InitOrder ==
    \E l \in Listings({AShp, BShp, AShx, BShx, ADbf, BDbf, APrj}, MaxMembers),
       prj \in {Healthy(<<65>>), Healthy(<<195>>),
                [Healthy(<<65>>) EXCEPT !.openOk = FALSE]} :
        Start([names |-> l,
               file |-> [n \in Range(l) |->
                           IF n = APrj THEN prj ELSE Healthy(<<65>>)]],
              U64Words)

\* read_member is run on one member in every condition, on every target
InitReadMember ==
    \E m \in AnyMember, words \in UsizeWidths :
        Start([names |-> <<AShp>>, file |-> [n \in {AShp} |-> m]], words)

\* ZippedShapefile::new(source)
NewCall ==
    /\ pc = "start"
    /\ LET r == New(archive)
       IN  /\ newResult' = r
           /\ pc' = IF r.res.kind = "Ok" THEN "ready" ELSE "failed"
           /\ self' = IF r.res.kind = "Ok" THEN r.res.val ELSE NoSelf
           /\ fresh' = IF r.res.kind = "Ok" THEN r.res.val ELSE NoSelf
           /\ last' = [op |-> "new", res |-> r.res, reads |-> r.reads]
           /\ nreads' = [n \in DOMAIN nreads |-> nreads[n] + Count(n, r.reads)]
    /\ UNCHANGED <<archive, usizeWords, ncalls>>

\* the effect on the state of a call of facade method op that went as c
Apply(c, op) ==
    /\ last' = [op |-> op, res |-> c.res, reads |-> c.reads]
    /\ self' = c.self
    /\ pc' = IF c.res.kind = "Panic" THEN "panicked" ELSE "ready"
    /\ nreads' = [n \in DOMAIN nreads |-> nreads[n] + Count(n, c.reads)]
    /\ ncalls' = ncalls + 1
    /\ UNCHANGED <<archive, usizeWords, fresh, newResult>>

ProjectionCall ==
    /\ pc = "ready"
    /\ ncalls < MaxCalls
    /\ LET c == Projection(self, archive, usizeWords)
       IN  Apply(c, "projection")

ShapeReaderCall ==
    /\ pc = "ready"
    /\ ncalls < MaxCalls
    /\ LET c == ShapeReader(self, archive, usizeWords)
       IN  Apply(c, "shape_reader")

DbfReaderCall ==
    /\ pc = "ready"
    /\ ncalls < MaxCalls
    /\ LET c == DbfReader(self, archive, usizeWords)
       IN  Apply(c, "dbf_reader")

ReaderCall ==
    /\ pc = "ready"
    /\ ncalls < MaxCalls
    /\ LET c == Reader(self, archive, usizeWords)
       IN  Apply(c, "reader")

TypesCall ==
    /\ pc = "ready"
    /\ ncalls < MaxCalls
    /\ LET c == Types(self, archive, usizeWords)
       IN  Apply(c, "types")

\* self.read_member(&shp), as shape_reader starts
ReadMemberCall ==
    /\ pc = "ready"
    /\ ncalls < MaxCalls
    /\ LET o == ReadMember(archive, usizeWords, self.shp)
       IN  /\ last' = [op |-> "read_member", res |-> o.res,
                       reads |-> <<self.shp>>, steps |-> o.steps]
           /\ pc' = IF o.res.kind = "Panic" THEN "panicked" ELSE "ready"
           /\ nreads' = [nreads EXCEPT ![self.shp] = @ + 1]
    /\ ncalls' = ncalls + 1
    /\ UNCHANGED <<archive, usizeWords, self, fresh, newResult>>

Next ==
    \/ NewCall
    \/ ProjectionCall
    \/ ShapeReaderCall
    \/ DbfReaderCall
    \/ ReaderCall
    \/ TypesCall

NextNew == NewCall

NextReadMember == NewCall \/ ReadMemberCall

Spec == Init /\ [][Next]_vars
SpecNew == InitNew /\ [][NextNew]_vars
SpecOrder == InitOrder /\ [][NextNew]_vars
SpecReadMember == InitReadMember /\ [][NextReadMember]_vars

----------------------------------------------------------------------------
(* What the archive holds, stated on the archive alone *)

\* the positions of the listing whose name ends with ext
Matches(ar, ext) == {i \in 1..Len(ar.names) : EndsWith(ar.names[i], ext)}

\* the extensions that two or more names end with
Duplicated(ar) == {e \in Extensions : Cardinality(Matches(ar, e)) >= 2}

\* the position of the second name ending with a duplicated extension
SecondMatch(ar, ext) ==
    CHOOSE i \in Matches(ar, ext) :
        Cardinality({j \in Matches(ar, ext) : j < i}) = 1

\* the only name ending with ext
TheMember(ar, ext) == ar.names[CHOOSE i \in Matches(ar, ext) : TRUE]

\* texts of up to two code points, 'A' or U+00E9
Texts == UNION {[1..n -> {65, 233}] : n \in 0..2}

\* the member can be opened and streamed, and its bytes encode a text
Readable(m) ==
    /\ m.openOk
    /\ m.readOk
    /\ \E t \in Texts : Utf8Encode(t) = m.data

\* the .prj member, if there is exactly one, is readable as text
PrjReadable(ar) ==
    Matches(ar, DotPrj) # {} => Readable(ar.file[TheMember(ar, DotPrj)])

\* the value of a u64 fits the target's usize
Fits(size, words) == \A k \in 1..(U64Words - words) : size[k] = 0

\* the member materialises: it opens, streams, and holds as many bytes as
\* it declares
Materialises(m) ==
    /\ m.openOk
    /\ m.readOk
    /\ m.size = ToWords(Len(m.data))

Constructed == pc # "start"

\* the index permutations of the listings
PermTable ==
    [n \in 0..(MaxMembers + 1) |->
        {f \in [1..n -> 1..n] : \A i, j \in 1..n : i # j => f[i] # f[j]}]

\* the archive with its names listed in every order
Reorderings(ar) ==
    {[ar EXCEPT !.names = [i \in 1..Len(ar.names) |-> ar.names[f[i]]]] :
        f \in PermTable[Len(ar.names)]}

----------------------------------------------------------------------------
(* Claims about ZippedShapefile::new, under SpecNew (C10: SpecOrder) *)

C2_EveryDuplicateNamed ==
    Constructed
        => \A e \in Duplicated(archive) :
              /\ newResult.res = Err("MultipleFilesFound", e)
              /\ newResult.seen = SecondMatch(archive, e)
              /\ newResult.reads = <<>>

\* C2 amended: when some tracked extension is duplicated, new fails with
\* MultipleFilesFound naming the duplicated extension whose second match
\* comes first in the listing; it returns on that name, and no member has
\* been opened or read.
C2_FirstDuplicateNamed ==
    Constructed /\ Duplicated(archive) # {}
        => /\ newResult.res.kind = "Err"
           /\ newResult.res.err = "MultipleFilesFound"
           /\ newResult.res.arg \in Duplicated(archive)
           /\ \A e \in Duplicated(archive) :
                 SecondMatch(archive, newResult.res.arg)
                    <= SecondMatch(archive, e)
           /\ newResult.seen = SecondMatch(archive, newResult.res.arg)
           /\ newResult.reads = <<>>
           /\ \A n \in DOMAIN nreads : nreads[n] = 0

\* two extensions are duplicated, a .prj is listed first, and new returned
\* before the end of the listing
C2_Witness ==
    /\ Constructed
    /\ Cardinality(Duplicated(archive)) = 2
    /\ 1 \in Matches(archive, DotPrj)
    /\ newResult.res.kind = "Err"
    /\ newResult.res.err = "MultipleFilesFound"
    /\ newResult.seen < Len(archive.names)

\* C3 as stated: with exactly one .shp and at most one of .shx, .dbf, .prj,
\* new succeeds and resolves exactly the members present.
C3_UniqueMembersSucceed ==
    (/\ Constructed
     /\ Cardinality(Matches(archive, DotShp)) = 1
     /\ Duplicated(archive) = {})
        => newResult.res.kind = "Ok"

\* C3 amended: with exactly one .shp and at most one of .shx, .dbf, .prj,
\* new succeeds provided the .prj member, if present, is read and decoded as
\* text, and then shp is the .shp name, shx and dbf hold the name of the
\* member iff there is one, and projection holds the .prj member's text iff
\* there is one; when the .prj cannot be read or decoded, new fails with
\* that error (Zip or IOError).
C3_UniqueMembersResolved ==
    (/\ Constructed
     /\ Cardinality(Matches(archive, DotShp)) = 1
     /\ Duplicated(archive) = {})
        => IF PrjReadable(archive)
           THEN /\ newResult.res.kind = "Ok"
                /\ pc = "ready"
                /\ self.shp = TheMember(archive, DotShp)
                /\ self.shx = IF Matches(archive, DotShx) = {} THEN None
                              ELSE Some(TheMember(archive, DotShx))
                /\ self.dbf = IF Matches(archive, DotDbf) = {} THEN None
                              ELSE Some(TheMember(archive, DotDbf))
                /\ IF Matches(archive, DotPrj) = {}
                   THEN self.projection = None
                   ELSE /\ IsSome(self.projection)
                        /\ Utf8Encode(self.projection.val)
                             = archive.file[TheMember(archive, DotPrj)].data
           ELSE /\ newResult.res.kind = "Err"
                /\ newResult.res.err \in {"Zip", "IOError"}

\* all four members are present once, among others, and the projection is
\* the one-character text U+00E9
C3_Witness ==
    /\ pc = "ready"
    /\ \A e \in Extensions : Cardinality(Matches(archive, e)) = 1
    /\ self.projection = Some(<<233>>)
    /\ IsSome(self.shx)
    /\ IsSome(self.dbf)

\* C10 as stated: new returns the same result for every listing order of
\* the same members.
C10_OrderIndependent ==
    Constructed
        => \A other \in Reorderings(archive) :
              New(other).res = newResult.res

\* C10 amended: for every listing order of the same members new succeeds
\* with the same fields, or fails with the same kind of error; the
\* extension MultipleFilesFound names is the same in every order when only
\* one extension is duplicated (with several, it depends on the order).
C10_OrderIndependentButExtension ==
    Constructed
        => \A other \in Reorderings(archive) :
              LET r == New(other).res
              IN  /\ r.kind = newResult.res.kind
                  /\ r.kind = "Ok" => r = newResult.res
                  /\ r.kind = "Err" => r.err = newResult.res.err
                  /\ Cardinality(Duplicated(archive)) <= 1
                        => r = newResult.res

\* one extension is duplicated, and in another order of the same listing
\* the loop returns at a different position
C10_Witness ==
    /\ Constructed
    /\ Cardinality(Duplicated(archive)) = 1
    /\ Len(archive.names) = MaxMembers
    /\ \E other \in Reorderings(archive) :
          New(other).seen # newResult.seen

----------------------------------------------------------------------------
(* Claims about read_member, under SpecReadMember *)

\* the member read_member was called on
TheShp == archive.file[AShp]

\* C5: when read_member returns a buffer, the buffer holds exactly as many
\* bytes as the member declares (the member's bytes, at position 0); when
\* the stream was read to its end and yielded another number of bytes than
\* declared, the call panics in assert_eq; a typed error is returned only
\* for an entry that cannot be opened, a size that does not fit usize or a
\* failed read, never for the mismatch.
C5_BufferHasDeclaredSize ==
    last.op = "read_member"
        => /\ last.res.kind = "Ok"
                => /\ ToWords(Len(last.res.val.buf)) = TheShp.size
                   /\ last.res.val.buf = TheShp.data
                   /\ last.res.val.pos = 0
           /\ (/\ TheShp.openOk
               /\ Fits(TheShp.size, usizeWords)
               /\ ~ExceedsIsizeMax(TheShp.size, usizeWords)
               /\ TheShp.readOk
               /\ ToWords(Len(TheShp.data)) # TheShp.size)
                => /\ last.res = Panic("assert_eq")
                   /\ pc = "panicked"
           /\ last.res.kind = "Err"
                => \/ ~TheShp.openOk /\ last.res.err = "Zip"
                   \/ ~Fits(TheShp.size, usizeWords)
                        /\ last.res.err = "MemberSizeTooLarge"
                   \/ ~TheShp.readOk /\ last.res.err = "IOError"

\* a member declaring more bytes than its stream yields was read to the end
\* and the call panicked
C5_Witness ==
    /\ last.op = "read_member"
    /\ TheShp.size = ToWords(Len(TheShp.data) + 1)
    /\ Len(TheShp.data) = MaxLen
    /\ last.steps = <<"by_name", "with_capacity", "read_to_end">>
    /\ last.res = Panic("assert_eq")

\* C7: on a member whose entry opens, read_member returns
\* MemberSizeTooLarge with the declared 64-bit size unchanged, having
\* neither allocated nor read, exactly when the declared size does not fit
\* usize; when it fits, a returned buffer has the full declared size.
C7_SizeOverflow ==
    last.op = "read_member" /\ TheShp.openOk
        => /\ ~Fits(TheShp.size, usizeWords)
                => /\ last.res = Err("MemberSizeTooLarge", TheShp.size)
                   /\ last.steps = <<"by_name">>
           /\ Fits(TheShp.size, usizeWords)
                => /\ ~(last.res.kind = "Err"
                         /\ last.res.err = "MemberSizeTooLarge")
                   /\ last.res.kind = "Ok"
                        => ToWords(Len(last.res.val.buf)) = TheShp.size

\* a member declaring 2^32 + 1 bytes was refused on a 32-bit target
C7_Witness ==
    /\ last.op = "read_member"
    /\ usizeWords = 2
    /\ TheShp.size = <<0, 1, 0, 1>>
    /\ Len(TheShp.data) = 1
    /\ TheShp.readOk
    /\ last.res = Err("MemberSizeTooLarge", <<0, 1, 0, 1>>)

----------------------------------------------------------------------------
(* Claims about the facade, under Spec *)

Listed(name) == name \in Range(archive.names)

\* C4: on a dataset without a .dbf member, reader fails with NoDbfFound and
\* dbf_reader returns Ok(None), and neither opens a member.
C4_AbsentDbf ==
    ~Listed(ADbf)
        => /\ last.op = "reader"
                => /\ last.res = Err("NoDbfFound", NoArg)
                   /\ last.reads = <<>>
           /\ last.op = "dbf_reader"
                => /\ last.res = Ok(None)
                   /\ last.reads = <<>>
           /\ last.op \in {"reader", "dbf_reader"} => pc = "ready"

\* reader failed with NoDbfFound on a dataset that has geometry and index
C4_Witness ==
    /\ ~Listed(ADbf)
    /\ Listed(AShx)
    /\ last.op = "reader"
    /\ last.res = Err("NoDbfFound", NoArg)
    /\ nreads[AShp] = 0

\* C6: the fields of a constructed dataset are the ones new returned, after
\* every sequence of facade calls, failed ones included, and every call
\* returns what it returns on the fresh dataset.
C6_SlotsImmutable ==
    pc = "ready"
        => /\ self = fresh
           /\ self = newResult.res.val
           /\ last.op \in Methods
                => /\ last.res = Call(last.op, fresh, archive, usizeWords).res
                   /\ last.reads
                        = Call(last.op, fresh, archive, usizeWords).reads

\* shape_reader succeeded with the index after an earlier call had failed on
\* an unopenable attribute member
C6_Witness ==
    /\ pc = "ready"
    /\ Listed(ADbf)
    /\ ~archive.file[ADbf].openOk
    /\ nreads[ADbf] >= 1
    /\ last.op = "shape_reader"
    /\ last.res.kind = "Ok"
    /\ IsSome(last.res.val.shx)

\* the attribute member materialises and the dbase parser accepts it
DbfGood ==
    /\ Materialises(archive.file[ADbf])
    /\ archive.file[ADbf].wellFormed

\* C8: reader opens the attribute member before the geometry and index
\* members; with the attribute slot absent it returns NoDbfFound, and when
\* the attribute member fails to materialise or parse it fails, in both
\* cases without having opened the geometry or index member.
C8_AttributesFirst ==
    last.op = "reader"
        => /\ \A i \in 1..Len(last.reads) :
                 last.reads[i] \in {AShp, AShx}
                    => \E j \in 1..(i - 1) : last.reads[j] = ADbf
           /\ ~Listed(ADbf)
                => last.res = Err("NoDbfFound", NoArg) /\ last.reads = <<>>
           /\ Listed(ADbf) /\ ~DbfGood
                => /\ last.res.kind # "Ok"
                   /\ last.reads = <<ADbf>>
           /\ (/\ Listed(ADbf)
               /\ \/ ~archive.file[ADbf].openOk
                  \/ ~archive.file[ADbf].readOk
                  \/ ~Fits(archive.file[ADbf].size, usizeWords)
                  \/ Materialises(archive.file[ADbf]) /\ ~DbfGood)
                => last.res.kind = "Err"
           /\ Listed(ADbf) /\ DbfGood => last.reads[2] = AShp

\* reader returned the dbase parser's error and had opened only the
\* attribute member, on a dataset with geometry and index
C8_Witness ==
    /\ last.op = "reader"
    /\ Listed(AShx)
    /\ last.res = Err("DBase", NoArg)
    /\ last.reads = <<ADbf>>
    /\ nreads[AShp] = 0

\* a call of shape_reader just returned
ShapeReaderReturned == last.op = "shape_reader"

\* C9 as stated: every call of shape_reader opens the geometry member, and
\* the index member iff an index slot was resolved, in that order.
C9_IndexIffResolved ==
    ShapeReaderReturned
        => last.reads = IF Listed(AShx) THEN <<AShp, AShx>> ELSE <<AShp>>

\* C9 amended: every call of shape_reader opens the geometry member afresh,
\* and then the index member iff an index slot was resolved and the
\* geometry member materialised (a failed geometry read returns first); a
\* reader it returns is built from both buffers when the index is resolved
\* and from the geometry buffer alone otherwise; nothing is cached: every
\* call adds one to the number of times the geometry member was opened.
C9_GeometryThenIndex ==
    /\ [](ShapeReaderReturned
            => /\ last.reads =
                    IF /\ Listed(AShx)
                       /\ Materialises(archive.file[AShp])
                    THEN <<AShp, AShx>> ELSE <<AShp>>
               /\ last.res.kind = "Ok"
                    => /\ last.res.val.source.buf = archive.file[AShp].data
                       /\ IF Listed(AShx)
                          THEN last.res.val.shx
                                 = Some(Cursor(archive.file[AShx]))
                          ELSE last.res.val.shx = None)
    /\ [][ncalls' = ncalls + 1 /\ last'.op = "shape_reader"
            => /\ nreads'[AShp] = nreads[AShp] + 1
               /\ Listed(AShx) /\ Materialises(archive.file[AShp])
                    => nreads'[AShx] = nreads[AShx] + 1]_vars

\* the second of two calls returned a reader built from geometry and index
C9_Witness ==
    /\ ShapeReaderReturned
    /\ last.res.kind = "Ok"
    /\ IsSome(last.res.val.shx)
    /\ nreads[AShp] >= 2
    /\ nreads[AShx] >= 2

====
